---------------------------- MODULE Spec2Model ----------------------------
(***************************************************************************)
(* Model of NewsTitleExtractor (src/news_title_ocr_app.py, lines 62-104):  *)
(* image preprocessing, the OCR call, text normalisation and the headline  *)
(* selection rule.  Text is a sequence of Unicode code points; an image is *)
(* a record of its shape and its pixels.  Each call of get_news_title is a *)
(* process with its own frame of local variables; the image arrays and the *)
(* extractor's ocr_config are shared between the calls.                    *)
(***************************************************************************)
EXTENDS Integers, Sequences, FiniteSets, TLC

(***************************************************************************)
(* Bounds of the model.                                                    *)
(***************************************************************************)
NumCalls  == 2        \* concurrent calls of get_news_title
MaxWords  == 5        \* words in one answer of the OCR engine
MaxPixels == 4        \* pixels (height * width) of an image

Calls  == 1..NumCalls
Arrays == 1..2        \* the image arrays the caller holds

(***************************************************************************)
(* Characters.                                                             *)
(***************************************************************************)
LF == 10              \* '\n'
CJK_FIRST == 19968    \* U+4E00
CJK_LAST  == 40959    \* U+9FFF

\* str.isspace(), the characters str.strip() removes
IsSpace(ch) ==
    \/ ch \in 9..13
    \/ ch \in 28..32
    \/ ch \in {133, 160, 5760, 8232, 8233, 8239, 8287, 12288}
    \/ ch \in 8192..8202

\* [\u4e00-\u9fff]
IsCJK(ch) == ch >= CJK_FIRST /\ ch <= CJK_LAST

\* re.search(r'[\u4e00-\u9fff]', line)
re_search_cjk(line) == \E i \in 1..Len(line) : IsCJK(line[i])

\* the title of line 88, U+672A U+8BC6 U+522B U+5230 U+4EFB U+4F55 U+6587 U+5B57
NO_TEXT_SENTINEL == <<26410, 35782, 21035, 21040, 20219, 20309, 25991, 23383>>
\* the title of line 99, U+65E0 U+6709 U+6548 U+6587 U+5B57
NO_VALID_TEXT_SENTINEL == <<26080, 26377, 25928, 25991, 23383>>

\* len(line) > 4
MIN_TITLE_LEN == 4

(***************************************************************************)
(* String functions of Python used by the extractor.                       *)
(***************************************************************************)
RECURSIVE re_sub_pairs(_)
\* re.sub(r'\n\n', '\n', text): each pair of line breaks, not each run
re_sub_pairs(text) ==
    IF Len(text) <= 1 THEN text
    ELSE IF text[1] = LF /\ text[2] = LF
         THEN <<LF>> \o re_sub_pairs(Tail(Tail(text)))
         ELSE <<text[1]>> \o re_sub_pairs(Tail(text))

RECURSIVE re_sub_newlines(_)
\* re.sub(r'\n+', '\n', text)
re_sub_newlines(text) ==
    IF Len(text) <= 1 THEN text
    ELSE IF text[1] = LF /\ text[2] = LF
         THEN re_sub_newlines(Tail(text))
         ELSE <<text[1]>> \o re_sub_newlines(Tail(text))

\* str.strip()
strip(s) ==
    LET keep == {i \in 1..Len(s) : ~IsSpace(s[i])}
    IN  IF keep = {} THEN <<>>
        ELSE LET lo == CHOOSE i \in keep : \A j \in keep : i <= j
                 hi == CHOOSE i \in keep : \A j \in keep : i >= j
             IN  SubSeq(s, lo, hi)

RECURSIVE split_newline(_)
\* str.split('\n')
split_newline(s) ==
    LET at == {i \in 1..Len(s) : s[i] = LF}
    IN  IF at = {} THEN <<s>>
        ELSE LET i == CHOOSE k \in at : \A j \in at : k <= j
             IN  <<SubSeq(s, 1, i - 1)>> \o split_newline(SubSeq(s, i + 1, Len(s)))

\* re.sub(r'\n+', '\n', text) with the .strip() left out
clean_text_no_strip(text) == re_sub_newlines(text)

\* clean_text = re.sub(r'\n+', '\n', text).strip()
clean_text(text) == strip(re_sub_newlines(text))

\* [line for line in all_text.split('\n') if line.strip()]
split_lines_no_strip(all_text) ==
    SelectSeq(split_newline(all_text), LAMBDA line : strip(line) # <<>>)

\* [line.strip() for line in all_text.split('\n') if line.strip()]
split_lines(all_text) ==
    LET pieces   == split_newline(all_text)
        stripped == [i \in 1..Len(pieces) |-> strip(pieces[i])]
    IN  SelectSeq(stripped, LAMBDA line : line # <<>>)

\* len(line) > 4 and re.search(r'[\u4e00-\u9fff]', line)
is_candidate(line) == Len(line) > MIN_TITLE_LEN /\ re_search_cjk(line)

\* [line for line in lines if ...]
candidates_of(lines) == SelectSeq(lines, is_candidate)

\* the last item of greatest length (sorted(..., key=len)[-1])
max_by_len_last(items) ==
    items[CHOOSE i \in 1..Len(items) :
            \A j \in 1..Len(items) :
               /\ Len(items[j]) <= Len(items[i])
               /\ (j > i => Len(items[j]) < Len(items[i]))]

\* max(candidate_titles, key=len): the first item of greatest length
max_by_len(items) ==
    items[CHOOSE i \in 1..Len(items) :
            \A j \in 1..Len(items) :
               /\ Len(items[j]) <= Len(items[i])
               /\ (j < i => Len(items[j]) < Len(items[i]))]

\* title = max(...) if candidate_titles else (lines[-1] if lines else <sentinel>)
select_title_last_line(lines, candidate_titles) ==
    IF candidate_titles # <<>> THEN max_by_len(candidate_titles)
    ELSE IF lines # <<>> THEN lines[Len(lines)]
    ELSE NO_VALID_TEXT_SENTINEL

\* title = max(...) if candidate_titles else (lines[0] if lines else <sentinel>)
select_title(lines, candidate_titles) ==
    IF candidate_titles # <<>> THEN max_by_len(candidate_titles)
    ELSE IF lines # <<>> THEN lines[1]
    ELSE NO_VALID_TEXT_SENTINEL

(***************************************************************************)
(* Images and preprocessing.                                               *)
(***************************************************************************)
THRESH_BINARY_INV == 1
THRESH_OTSU       == 8
THRESH_ARG        == 127
MAXVAL            == 255

\* cv2.COLOR_RGB2GRAY: Y = 0.299 R + 0.587 G + 0.114 B, rounded
rgb2gray(p) == (299 * p[1] + 587 * p[2] + 114 * p[3] + 500) \div 1000

\* gray = cv2.cvtColor(img_array, cv2.COLOR_RGB2GRAY)
cvtColor(img) ==
    [h |-> img.h, w |-> img.w, ndim |-> 2,
     px |-> [i \in 1..Len(img.px) |-> rgb2gray(img.px[i])]]

RECURSIVE SumUpTo(_, _, _)
\* sum of the intensities <= t among the first n pixels
SumUpTo(px, t, n) ==
    IF n = 0 THEN 0
    ELSE SumUpTo(px, t, n - 1) + (IF px[n] <= t THEN px[n] ELSE 0)

CountUpTo(px, t) == Cardinality({i \in 1..Len(px) : px[i] <= t})

\* between-class variance of the split at t, as numerator and denominator
OtsuSigma(px, t) ==
    LET q1 == CountUpTo(px, t)
        q2 == Len(px) - q1
        s1 == SumUpTo(px, t, Len(px))
        s2 == SumUpTo(px, 255, Len(px)) - s1
        d  == s1 * q2 - s2 * q1
    IN  [num |-> d * d, den |-> q1 * q2]

\* cv2.THRESH_OTSU: the lowest level of greatest between-class variance,
\* 0 when no level splits the pixels in two classes
otsu_threshold(px) ==
    LET valid == {t \in {px[i] : i \in 1..Len(px)} :
                     CountUpTo(px, t) < Len(px)}
        better(a, b) == OtsuSigma(px, a).num * OtsuSigma(px, b).den
                          > OtsuSigma(px, b).num * OtsuSigma(px, a).den
    IN  IF valid = {} THEN 0
        ELSE CHOOSE t \in valid :
                \A u \in valid : /\ ~better(u, t)
                                 /\ (u < t => better(t, u))

\* cv2.threshold(src, thresh, maxval, type)[1]
threshold(src, thresh, maxval, type) ==
    LET t   == IF (type \div THRESH_OTSU) % 2 = 1
               THEN otsu_threshold(src.px) ELSE thresh
        inv == (type % THRESH_OTSU) = THRESH_BINARY_INV
    IN  [h |-> src.h, w |-> src.w, ndim |-> 2,
         px |-> [i \in 1..Len(src.px) |->
                   IF src.px[i] > t
                   THEN (IF inv THEN 0 ELSE maxval)
                   ELSE (IF inv THEN maxval ELSE 0)]]

\* cv2.THRESH_BINARY_INV alone: the threshold is the argument, 127
threshold_type_no_otsu == THRESH_BINARY_INV

\* the flags of the threshold call
threshold_type == THRESH_BINARY_INV + THRESH_OTSU

\* NewsTitleExtractor.preprocess_image
preprocess_image(img) ==
    threshold(cvtColor(img), THRESH_ARG, MAXVAL, threshold_type)

(***************************************************************************)
(* Inputs: image arrays and answers of the OCR engine.                     *)
(***************************************************************************)
BLACK == <<0, 0, 0>>
RED   == <<255, 0, 0>>
GREY  == <<200, 200, 200>>
WHITE == <<255, 255, 255>>
Palette == {BLACK, RED, GREY, WHITE}

Shapes == {s \in (1..MaxPixels) \X (1..MaxPixels) : s[1] * s[2] <= MaxPixels}

\* 3-channel arrays (np.array of an RGB image)
ColorImages ==
    UNION {{[h |-> s[1], w |-> s[2], ndim |-> 3, px |-> p] :
              p \in [1..(s[1] * s[2]) -> Palette]} : s \in Shapes}

\* a 2-D array (np.array of a grayscale upload, line 195): cvtColor rejects it
GrayImage == [h |-> 1, w |-> 1, ndim |-> 2, px |-> <<128>>]

Images == ColorImages \cup {GrayImage}

Blank == [h |-> 1, w |-> 1, ndim |-> 3, px |-> <<WHITE>>]

TwoTone == [h |-> 1, w |-> 2, ndim |-> 3, px |-> <<GREY, WHITE>>]

Words ==
    { <<LF>>, <<32>>,                 \* '\n', ' '
      <<72, 105>>,                    \* "Hi"
      <<CJK_FIRST>>,                  \* U+4E00
      <<CJK_LAST, 25991>>,            \* U+9FFF U+6587
      <<19967, 66, 67, 40960>>,       \* U+4DFF "BC" U+A000: no CJK character
      NO_VALID_TEXT_SENTINEL }

RECURSIVE TextsOf(_)
\* the texts of at most n words
TextsOf(n) ==
    IF n = 0 THEN {<<>>}
    ELSE LET shorter == TextsOf(n - 1)
         IN  shorter \cup {t \o w : t \in shorter, w \in Words}

\* "Hi\nOK\n"
EX_SHORT == <<72, 105, LF, 79, 75, LF>>
\* "A\n\n\nB"
EX_BREAKS == <<65, LF, LF, LF, 66>>
\* a 17-character headline line, a 6-character body line
EX_HEADLINE ==
    <<26631, 39064, 65306, 36825, 26159, 19968, 26465, 38750, 24120, 38271,
      30340, 26032, 38395, 26631, 39064, 20869, 23481, LF,
      27491, 25991, 31532, 19968, 21477, 35805, LF>>

Texts == TextsOf(MaxWords) \cup {EX_SHORT, EX_BREAKS, EX_HEADLINE}

TextsSmall ==
    { <<>>, <<LF, 32>>, EX_SHORT,
      <<19967, 66, 67, 40960, CJK_FIRST, LF, LF, 72, 105>> }

(***************************************************************************)
(* State.                                                                  *)
(***************************************************************************)
VARIABLES
    image,             \* the caller's image arrays, by array
    ocr_config,        \* self.ocr_config
    pc,                \* where each call is
    img_array,         \* the array each call was given
    processed_img,     \* local of extract_text_from_image
    text,              \* local of extract_text_from_image: the engine's answer
    all_text,          \* local of get_news_title
    lines,             \* local of get_news_title
    candidate_titles,  \* local of get_news_title
    result,            \* what each call returned
    ocr_calls,         \* how often each call invoked the engine
    failed,            \* whether an exception was raised in the call
    given,             \* the content of the array when the call was made
    answer             \* what the engine answered to the call

vars == <<image, ocr_config, pc, img_array, processed_img, text, all_text,
          lines, candidate_titles, result, ocr_calls, failed, given, answer>>

\* r'--oem 3 --psm 6 -l chi_sim+eng'
OCR_CONFIG == "--oem 3 --psm 6 -l chi_sim+eng"

\* the binary image written back into img_array (dst=img_array)
array_overwritten(img) ==
    [img EXCEPT !.px = [i \in 1..Len(img.px) |->
                          LET v == preprocess_image(img).px[i] IN <<v, v, v>>]]

\* cvtColor and threshold return new arrays: img_array is read, never written
array_after_preprocess(img) == img

\* the locals kept in one place for all calls (self.all_text = ...)
SharedFrame(c) == 1

\* the locals of a call live in the call's own frame
Frame(c) == c

\* except Exception: return {<full text>: "", <title>: <sentinel>}
CaughtOutcome ==
    [pc |-> "returned",
     result |-> <<[full_text |-> <<>>, title |-> NO_TEXT_SENTINEL]>>]

\* an exception leaves get_news_title: nothing is returned
RaisedOutcome == [pc |-> "raised", result |-> <<>>]

\* return {<full text>: "", <title>: <the other sentinel>}
no_text_result_other == [full_text |-> <<>>, title |-> NO_VALID_TEXT_SENTINEL]

\* return {<full text>: "", <title>: <sentinel>}  (line 88)
no_text_result == [full_text |-> <<>>, title |-> NO_TEXT_SENTINEL]

InitWith(images) ==
    /\ image \in {[a \in Arrays |-> IF a = 1 THEN i ELSE GrayImage] : i \in images}
    /\ ocr_config = OCR_CONFIG
    /\ pc = [c \in Calls |-> "idle"]
    /\ img_array = [c \in Calls |-> 0]
    /\ processed_img = [c \in Calls |-> <<>>]
    /\ text = [c \in Calls |-> <<>>]
    /\ all_text = [c \in Calls |-> <<>>]
    /\ lines = [c \in Calls |-> <<>>]
    /\ candidate_titles = [c \in Calls |-> <<>>]
    /\ result = [c \in Calls |-> <<>>]
    /\ ocr_calls = [c \in Calls |-> 0]
    /\ failed = [c \in Calls |-> FALSE]
    /\ given = [c \in Calls |-> <<>>]
    /\ answer = [c \in Calls |-> <<>>]

\* extractor.get_news_title(img_array) is called
Call(c) ==
    /\ pc[c] = "idle"
    /\ \E a \in Arrays :
          /\ img_array' = [img_array EXCEPT ![c] = a]
          /\ given' = [given EXCEPT ![c] = <<image[a]>>]
    /\ pc' = [pc EXCEPT ![c] = "preprocess"]
    /\ UNCHANGED <<image, ocr_config, processed_img, text, all_text, lines,
                   candidate_titles, result, ocr_calls, failed, answer>>

\* processed_img = self.preprocess_image(img_array)
Preprocess(c) ==
    /\ pc[c] = "preprocess"
    /\ image[img_array[c]].ndim = 3
    /\ image' = [image EXCEPT ![img_array[c]] = array_after_preprocess(@)]
    /\ processed_img' = [processed_img EXCEPT
                           ![Frame(c)] = <<preprocess_image(image[img_array[c]])>>]
    /\ pc' = [pc EXCEPT ![c] = "ocr"]
    /\ UNCHANGED <<ocr_config, img_array, text, all_text, lines,
                   candidate_titles, result, ocr_calls, failed, given, answer>>

\* cv2.cvtColor raises on an array that has no channel axis
PreprocessRaise(c) ==
    /\ pc[c] = "preprocess"
    /\ image[img_array[c]].ndim # 3
    /\ pc' = [pc EXCEPT ![c] = RaisedOutcome.pc]
    /\ result' = [result EXCEPT ![c] = RaisedOutcome.result]
    /\ failed' = [failed EXCEPT ![c] = TRUE]
    /\ UNCHANGED <<image, ocr_config, img_array, processed_img, text, all_text,
                   lines, candidate_titles, ocr_calls, given, answer>>

\* text = pytesseract.image_to_string(processed_img, config=self.ocr_config)
Recognize(c, answers) ==
    /\ pc[c] = "ocr"
    /\ ocr_config = OCR_CONFIG
    /\ \E t \in answers :
          /\ text' = [text EXCEPT ![Frame(c)] = <<t>>]
          /\ answer' = [answer EXCEPT ![c] = <<t>>]
    /\ ocr_calls' = [ocr_calls EXCEPT ![c] = @ + 1]
    /\ pc' = [pc EXCEPT ![c] = "clean"]
    /\ UNCHANGED <<image, ocr_config, img_array, processed_img, all_text, lines,
                   candidate_titles, result, failed, given>>

\* pytesseract.image_to_string raises (no engine, engine error)
RecognizeRaise(c) ==
    /\ pc[c] = "ocr"
    /\ ocr_calls' = [ocr_calls EXCEPT ![c] = @ + 1]
    /\ pc' = [pc EXCEPT ![c] = RaisedOutcome.pc]
    /\ result' = [result EXCEPT ![c] = RaisedOutcome.result]
    /\ failed' = [failed EXCEPT ![c] = TRUE]
    /\ UNCHANGED <<image, ocr_config, img_array, processed_img, text, all_text,
                   lines, candidate_titles, given, answer>>

\* clean_text = re.sub(...).strip(); return clean_text; all_text = ...
Clean(c) ==
    /\ pc[c] = "clean"
    /\ all_text' = [all_text EXCEPT
                      ![Frame(c)] = <<clean_text(text[Frame(c)][1])>>]
    /\ pc' = [pc EXCEPT ![c] = "select"]
    /\ UNCHANGED <<image, ocr_config, img_array, processed_img, text, lines,
                   candidate_titles, result, ocr_calls, failed, given, answer>>

\* if not all_text: return {...}
ReturnNoText(c) ==
    /\ pc[c] = "select"
    /\ all_text[Frame(c)][1] = <<>>
    /\ result' = [result EXCEPT ![c] = <<no_text_result>>]
    /\ pc' = [pc EXCEPT ![c] = "returned"]
    /\ UNCHANGED <<image, ocr_config, img_array, processed_img, text, all_text,
                   lines, candidate_titles, ocr_calls, failed, given, answer>>

\* lines = ...; candidate_titles = ...; title = ...; return {...}
ReturnTitle(c) ==
    /\ pc[c] = "select"
    /\ all_text[Frame(c)][1] # <<>>
    /\ LET ls == split_lines(all_text[Frame(c)][1])
           cs == candidates_of(ls)
       IN  /\ lines' = [lines EXCEPT ![Frame(c)] = <<ls>>]
           /\ candidate_titles' = [candidate_titles EXCEPT ![Frame(c)] = <<cs>>]
           /\ result' = [result EXCEPT
                           ![c] = <<[full_text |-> all_text[Frame(c)][1],
                                     title |-> select_title(ls, cs)]>>]
    /\ pc' = [pc EXCEPT ![c] = "returned"]
    /\ UNCHANGED <<image, ocr_config, img_array, processed_img, text, all_text,
                   ocr_calls, failed, given, answer>>

\* get_news_title as a function of the engine's answer
get_news_title(t) ==
    LET a  == clean_text(t)
        ls == split_lines(a)
    IN  IF a = <<>> THEN no_text_result
        ELSE [full_text |-> a, title |-> select_title(ls, candidates_of(ls))]

Step(c, answers) ==
    \/ Call(c)
    \/ Preprocess(c)
    \/ PreprocessRaise(c)
    \/ Recognize(c, answers)
    \/ RecognizeRaise(c)
    \/ Clean(c)
    \/ ReturnNoText(c)
    \/ ReturnTitle(c)

\* any number of calls, interleaved
Init == InitWith({TwoTone, Blank})
Next == \E c \in Calls : Step(c, TextsSmall)
Spec == Init /\ [][Next]_vars

\* one call, every answer of the engine
InitText == InitWith({TwoTone})
NextText == Step(1, Texts)
SpecText == InitText /\ [][NextText]_vars

\* one call, every image
InitImage == InitWith(Images)
NextImage == Step(1, TextsSmall)
SpecImage == InitImage /\ [][NextImage]_vars


(***************************************************************************)
(* Vocabulary of the properties.  The lines of a text are given by their   *)
(* positions in it, independently of the functions above.                  *)
(***************************************************************************)
Returned(c) == pc[c] = "returned"
Raw(c)      == answer[c][1]
Title(c)    == result[c][1].title
FullText(c) == result[c][1].full_text

\* the last line break before position i (0 when there is none)
PrevBreak(t, i) ==
    LET b == {0} \cup {j \in 1..(i - 1) : t[j] = LF}
    IN  CHOOSE j \in b : \A k \in b : k <= j

\* the first line break after position i (Len(t) + 1 when there is none)
NextBreak(t, i) ==
    LET b == {Len(t) + 1} \cup {j \in (i + 1)..Len(t) : t[j] = LF}
    IN  CHOOSE j \in b : \A k \in b : j <= k

\* the first visible character of a line
LineStart(t, i) ==
    /\ ~IsSpace(t[i])
    /\ \A j \in (PrevBreak(t, i) + 1)..(i - 1) : IsSpace(t[j])

\* the last visible character of the line that holds position i
LineEnd(t, i) ==
    LET v == {j \in i..(NextBreak(t, i) - 1) : ~IsSpace(t[j])}
    IN  CHOOSE j \in v : \A k \in v : k <= j

\* the trimmed non-empty lines of t, as <<first, last>> positions
LineSpans(t) == {<<i, LineEnd(t, i)>> : i \in {k \in 1..Len(t) : LineStart(t, k)}}

Content(t, s) == SubSeq(t, s[1], s[2])
SpanLen(s)    == s[2] - s[1] + 1

\* longer than 4 characters, with a character in U+4E00..U+9FFF
Qualifies(line) ==
    /\ Len(line) > 4
    /\ \E i \in 1..Len(line) : line[i] \in 19968..40959

QualifyingSpans(t) == {s \in LineSpans(t) : Qualifies(Content(t, s))}

AllBlank(t) == \A i \in 1..Len(t) : IsSpace(t[i])

\* t without its leading and trailing whitespace
Trimmed(t) ==
    LET v == {i \in 1..Len(t) : ~IsSpace(t[i])}
    IN  IF v = {} THEN <<>>
        ELSE SubSeq(t, CHOOSE i \in v : \A j \in v : i <= j,
                       CHOOSE i \in v : \A j \in v : j <= i)

NoBreaks(t) == SelectSeq(t, LAMBDA ch : ch # LF)

\* the runs of line breaks that lie between two visible characters of t
InnerBreakRuns(t) ==
    {i \in 2..Len(t) :
        /\ t[i] = LF /\ t[i - 1] # LF
        /\ \E j \in 1..i : ~IsSpace(t[j])
        /\ \E j \in i..Len(t) : ~IsSpace(t[j])}

BreaksOf(t) == {i \in 1..Len(t) : t[i] = LF}

(***************************************************************************)
(* C1: when some trimmed non-empty line of the recognized text is longer   *)
(* than 4 characters and contains a CJK character, the title is the        *)
(* longest such line, and among lines of that length the first one.        *)
(***************************************************************************)
C1_LongestCjkLine ==
    \A c \in Calls :
       Returned(c) =>
          LET t == Raw(c)
              q == QualifyingSpans(t)
          IN  q # {} =>
                 \E s \in q :
                    /\ Title(c) = Content(t, s)
                    /\ \A u \in q :
                          /\ SpanLen(u) <= SpanLen(s)
                          /\ (u[1] < s[1] => SpanLen(u) < SpanLen(s))

\* two different qualifying lines of the greatest length: the first is the title
C1_Witness ==
    \E c \in Calls :
       /\ Returned(c)
       /\ LET t == Raw(c)
              q == QualifyingSpans(t)
          IN  \E s, u \in q :
                 /\ s[1] < u[1]
                 /\ SpanLen(s) = SpanLen(u)
                 /\ Content(t, s) # Content(t, u)
                 /\ \A v \in q : SpanLen(v) <= SpanLen(s)
                 /\ Title(c) = Content(t, s)

(***************************************************************************)
(* C2: when the recognized text has a non-empty line but no qualifying     *)
(* line, the title is its first non-empty line, trimmed; "Hi\nOK\n" gives  *)
(* the title "Hi".                                                         *)
(***************************************************************************)
C2_FirstLineFallback ==
    \A c \in Calls :
       Returned(c) =>
          LET t == Raw(c)
              l == LineSpans(t)
          IN  /\ (l # {} /\ QualifyingSpans(t) = {}) =>
                    \E s \in l : /\ \A u \in l : s[1] <= u[1]
                                 /\ Title(c) = Content(t, s)
              /\ t = EX_SHORT => Title(c) = <<72, 105>>

\* no qualifying line, several lines, the last one longer than the first
C2_Witness ==
    \E c \in Calls :
       /\ Returned(c)
       /\ LET t == Raw(c)
              l == LineSpans(t)
          IN  /\ QualifyingSpans(t) = {}
              /\ \E s, u \in l : /\ s[1] < u[1]
                                 /\ SpanLen(s) < SpanLen(u)
                                 /\ \A v \in l : s[1] <= v[1]
                                 /\ Title(c) = Content(t, s)

(***************************************************************************)
(* C3: when the normalized text is empty (the raw answer is empty or only  *)
(* line breaks and whitespace) the call returns full_text "" and the       *)
(* no-text sentinel as title, and computes neither lines nor candidates.   *)
(***************************************************************************)
C3_NoTextSentinel ==
    \A c \in Calls :
       /\ pc[c] \in {"select", "returned"} =>
             (all_text[c][1] = <<>> <=> AllBlank(Raw(c)))
       /\ (Returned(c) /\ AllBlank(Raw(c))) =>
             /\ result[c] = <<[full_text |-> <<>>, title |-> NO_TEXT_SENTINEL]>>
             /\ lines[c] = <<>>
             /\ candidate_titles[c] = <<>>

\* an answer of line breaks and blanks only
C3_Witness ==
    \E c \in Calls :
       /\ Returned(c)
       /\ AllBlank(Raw(c))
       /\ \E i, j \in 1..Len(Raw(c)) : Raw(c)[i] = LF /\ Raw(c)[j] = 32
       /\ Title(c) = NO_TEXT_SENTINEL

(***************************************************************************)
(* C4: the normalized text has no two adjacent line breaks and neither     *)
(* starts nor ends with whitespace; each run of line breaks between        *)
(* visible characters is one line break and nothing else is lost;          *)
(* "A\n\n\nB" becomes "A\nB".                                              *)
(***************************************************************************)
C4_Normalized ==
    \A c \in Calls :
       pc[c] \in {"select", "returned"} =>
          LET t == Raw(c)
              f == all_text[c][1]
          IN  /\ \A i \in 1..(Len(f) - 1) : ~(f[i] = LF /\ f[i + 1] = LF)
              /\ f # <<>> => (~IsSpace(f[1]) /\ ~IsSpace(f[Len(f)]))
              /\ NoBreaks(f) = Trimmed(NoBreaks(t))
              /\ Cardinality(BreaksOf(f)) = Cardinality(InnerBreakRuns(t))
              /\ t = EX_BREAKS => f = <<65, LF, 66>>

\* a run of three line breaks between two letters
C4_Witness ==
    \E c \in Calls :
       /\ pc[c] = "select"
       /\ Raw(c) = EX_BREAKS
       /\ all_text[c][1] = <<65, LF, 66>>

(***************************************************************************)
(* C5: a failure in preprocessing or in the engine is not caught and not   *)
(* retried: the call ends raised and returns nothing; the no-text outcome  *)
(* is a returned result, never a failure.                                  *)
(***************************************************************************)
C5_FailurePropagates ==
    \A c \in Calls :
       /\ ocr_calls[c] <= 1
       /\ failed[c] => (pc[c] = "raised" /\ result[c] = <<>>)
       /\ pc[c] = "raised" => (failed[c] /\ result[c] = <<>>)
       /\ result[c] # <<>> => (Returned(c) /\ ~failed[c] /\ ocr_calls[c] = 1)
       /\ (Returned(c) /\ AllBlank(Raw(c))) =>
             Title(c) = NO_TEXT_SENTINEL /\ ~failed[c]

\* one call failed in the engine, another returned the sentinel
C5_Witness ==
    \E c, d \in Calls :
       /\ failed[c] /\ ocr_calls[c] = 1 /\ pc[c] = "raised"
       /\ Returned(d) /\ Title(d) = NO_TEXT_SENTINEL /\ FullText(d) = <<>>

(***************************************************************************)
(* C6: calls do not modify ocr_config, and however the calls interleave,   *)
(* each call's preprocessed image and result are those of that call run    *)
(* alone on its image with its answer of the engine.                       *)
(***************************************************************************)
C6_CallsIndependent ==
    /\ ocr_config = OCR_CONFIG
    /\ \A c \in Calls :
          /\ pc[c] \in {"ocr", "clean", "select", "returned"} =>
                processed_img[c] = <<preprocess_image(given[c][1])>>
          /\ pc[c] \in {"select", "returned"} =>
                all_text[c] = <<get_news_title(Raw(c)).full_text>>
          /\ Returned(c) => result[c] = <<get_news_title(Raw(c))>>

\* a call returned while another one, with another answer, was under way
C6_Witness ==
    \E c, d \in Calls :
       /\ Returned(c)
       /\ pc[d] = "select"
       /\ Raw(c) # Raw(d)
       /\ FullText(c) # all_text[d][1]
       /\ FullText(c) # <<>>

(***************************************************************************)
(* C7: preprocess_image leaves its input array as it was, and two calls on *)
(* the same array produce the same output.                                 *)
(***************************************************************************)
C7_PreprocessRepeatable ==
    /\ \A c \in Calls : pc[c] # "idle" => image[img_array[c]] = given[c][1]
    /\ \A c, d \in Calls :
          (/\ processed_img[c] # <<>>
           /\ processed_img[d] # <<>>
           /\ img_array[c] = img_array[d]) => processed_img[c] = processed_img[d]

\* a second call preprocessed the array after a first call on it had returned
C7_Witness ==
    \E c, d \in Calls :
       /\ c # d
       /\ img_array[c] = img_array[d]
       /\ Returned(c)
       /\ pc[d] = "ocr"
       /\ processed_img[c] = processed_img[d]
       /\ \E i, j \in 1..Len(processed_img[d][1].px) :
             processed_img[d][1].px[i] # processed_img[d][1].px[j]

\* grey level of an RGB pixel: 0.299 R + 0.587 G + 0.114 B, rounded
Luma(p) == (299 * p[1] + 587 * p[2] + 114 * p[3] + 500) \div 1000

RECURSIVE Total(_, _)
Total(f, n) == IF n = 0 THEN 0 ELSE Total(f, n - 1) + f[n]

\* between-class variance of the classes <= t and > t: n0 n1 (m0 - m1)^2,
\* times n0 n1 to stay in the integers
ClassVar(g, t) ==
    LET lo == [i \in 1..Len(g) |-> IF g[i] <= t THEN g[i] ELSE 0]
        hi == [i \in 1..Len(g) |-> IF g[i] > t THEN g[i] ELSE 0]
        n0 == Cardinality({i \in 1..Len(g) : g[i] <= t})
        n1 == Len(g) - n0
        d  == Total(lo, Len(g)) * n1 - Total(hi, Len(g)) * n0
    IN  [num |-> d * d, den |-> n0 * n1]

\* t is the lowest level at which the between-class variance is greatest
IsOtsu(g, t) ==
    LET levels == {g[i] : i \in 1..Len(g)}
        splits == {u \in levels : \E i \in 1..Len(g) : g[i] > u}
    IN  IF splits = {} THEN t = 0
        ELSE /\ t \in splits
             /\ \A u \in splits :
                   /\ ClassVar(g, u).num * ClassVar(g, t).den
                        <= ClassVar(g, t).num * ClassVar(g, u).den
                   /\ u < t => ClassVar(g, u).num * ClassVar(g, t).den
                                 < ClassVar(g, t).num * ClassVar(g, u).den

(***************************************************************************)
(* C8: for a 3-channel image the output has one channel and the input's    *)
(* height and width, every pixel is 0 or 255, a pixel is 0 exactly when    *)
(* its grey level is above the Otsu threshold, and the threshold argument  *)
(* (127) does not matter.                                                  *)
(***************************************************************************)
C8_BinaryInverted ==
    \A c \in Calls :
       (processed_img[c] # <<>> /\ given[c][1].ndim = 3) =>
          LET in  == given[c][1]
              out == processed_img[c][1]
              g   == [i \in 1..Len(in.px) |-> Luma(in.px[i])]
          IN  /\ out.ndim = 2 /\ out.h = in.h /\ out.w = in.w
              /\ Len(out.px) = in.h * in.w
              /\ \A i \in 1..Len(out.px) : out.px[i] \in {0, 255}
              /\ \E t \in 0..255 :
                    /\ IsOtsu(g, t)
                    /\ \A i \in 1..Len(g) :
                          out.px[i] = IF g[i] > t THEN 0 ELSE 255
              /\ \A x \in {0, 100, 127, 254, 255} :
                    threshold(cvtColor(in), x, 255, threshold_type) = out

\* both values in the output although every grey level is above 127
C8_Witness ==
    \E c \in Calls :
       /\ processed_img[c] # <<>>
       /\ \A i \in 1..Len(given[c][1].px) : Luma(given[c][1].px[i]) > 127
       /\ \E i, j \in 1..Len(processed_img[c][1].px) :
             /\ processed_img[c][1].px[i] = 0
             /\ processed_img[c][1].px[j] = 255
             /\ given[c][1].px[i] = WHITE
             /\ given[c][1].px[j] = GREY

C10_TitleIsLineOfFullText ==
    \A c \in Calls :
       (Returned(c) /\ FullText(c) # <<>>) =>
          /\ Title(c) # <<>>
          /\ ~IsSpace(Title(c)[1]) /\ ~IsSpace(Title(c)[Len(Title(c))])
          /\ \A i \in 1..Len(Title(c)) : Title(c)[i] # LF
          /\ \E s \in LineSpans(FullText(c)) : Title(c) = Content(FullText(c), s)
          /\ FullText(c) = all_text[c][1]
          /\ NoBreaks(FullText(c)) = Trimmed(NoBreaks(Raw(c)))

\* the title is a later line of full_text that has a blank before it
C10_Witness ==
    \E c \in Calls :
       /\ Returned(c)
       /\ LET f == FullText(c)
          IN  \E s \in LineSpans(f) :
                 /\ s[1] > 2
                 /\ f[s[1] - 1] = 32
                 /\ Title(c) = Content(f, s)

=============================================================================
